---- MODULE Spec2Model ----
(***************************************************************************)
(* Model of src/server.py: the /process_ecg handler and the ECGProcessor   *)
(* pipeline (parse -> chunk -> extract -> normalize -> classify ->         *)
(* aggregate).  Samples are real numbers held in tenths (0.5 is 5, -1 is   *)
(* -10); a text is a sequence of one-character strings.                    *)
(***************************************************************************)
EXTENDS Integers, Sequences, FiniteSets, TLC

\* ------------------------------------------------------------------ bounds
MaxLines == 3
MaxChunk == 2
MaxRequests == 2

\* ------------------------------------------------------------- text inputs
NL == "\n"
Whitespace == {" ", NL}
Digits == {"0", "1", "2", "5"}

\* The lines a request text is built from: an in-range value, an in-range
\* boundary value wrapped in commas, an out-of-range value, a header word
\* followed by a comma, a line of one space.
Lines ==
  { <<"0", ".", "5">>, <<",", "-", "1", ",">>, <<"2">>, <<"x", ",">>, <<" ">> }

RECURSIVE Join(_)
Join(ls) ==
  IF Len(ls) = 0 THEN <<>>
  ELSE IF Len(ls) = 1 THEN ls[1]
  ELSE ls[1] \o <<NL>> \o Join(Tail(ls))

LineSeqs == UNION { [1..n -> Lines] : n \in 1..MaxLines }
Texts == { Join(ls) : ls \in LineSeqs }

\* ---------------------------------------------------------- str operations
\* str.split('\n')
RECURSIVE SplitFrom(_, _)
SplitFrom(s, cur) ==
  IF Len(s) = 0 THEN <<cur>>
  ELSE IF Head(s) = NL THEN <<cur>> \o SplitFrom(Tail(s), <<>>)
  ELSE SplitFrom(Tail(s), Append(cur, Head(s)))

Split(s) == SplitFrom(s, <<>>)

\* str.strip(chars): drops leading and trailing characters of the set
RECURSIVE LStrip(_, _)
LStrip(s, cs) ==
  IF Len(s) > 0 /\ Head(s) \in cs THEN LStrip(Tail(s), cs) ELSE s

RECURSIVE RStrip(_, _)
RStrip(s, cs) ==
  IF Len(s) > 0 /\ s[Len(s)] \in cs THEN RStrip(SubSeq(s, 1, Len(s) - 1), cs) ELSE s

Strip(s, cs) == RStrip(LStrip(s, cs), cs)

DigitVal(c) ==
  CASE c = "0" -> 0 [] c = "1" -> 1 [] c = "2" -> 2 [] c = "5" -> 5

AllDigits(s) == \A i \in 1..Len(s) : s[i] \in Digits

RECURSIVE NumVal(_)
NumVal(s) ==
  IF Len(s) = 0 THEN 0 ELSE NumVal(SubSeq(s, 1, Len(s) - 1)) * 10 + DigitVal(s[Len(s)])

DotAt(s) ==
  IF \E i \in 1..Len(s) : s[i] = "." THEN CHOOSE i \in 1..Len(s) :
       s[i] = "." /\ \A j \in 1..(i - 1) : s[j] # "."
  ELSE 0

\* The unsigned part of float(): digits, digits '.' [digits], or '.' digits.
\* The value is in tenths; a text carries at most one fractional digit.
Mantissa(s) ==
  LET d == DotAt(s)
      ip == IF d = 0 THEN s ELSE SubSeq(s, 1, d - 1)
      fp == IF d = 0 THEN <<>> ELSE SubSeq(s, d + 1, Len(s))
  IN  IF AllDigits(ip) /\ AllDigits(fp) /\ Len(ip) + Len(fp) > 0
      THEN [ok |-> TRUE,
            val |-> NumVal(ip) * 10 + (IF Len(fp) = 0 THEN 0 ELSE DigitVal(fp[1]))]
      ELSE [ok |-> FALSE, val |-> 0]

\* float(s): surrounding whitespace is ignored, then an optional sign and a
\* mantissa; ok = FALSE is ValueError.
Float(s) ==
  LET t == Strip(s, Whitespace)
      neg == Len(t) > 0 /\ t[1] = "-"
      signed == Len(t) > 0 /\ t[1] \in {"-", "+"}
      m == Mantissa(IF signed THEN Tail(t) ELSE t)
  IN  [ok |-> m.ok, val |-> IF neg THEN 0 - m.val ELSE m.val]

\* ------------------------------------------------------------ parse_ecg_data
\* Mutant: the header-skip state accepts any number as the first sample.
HeaderAcceptsAny(num) == TRUE

HeaderAccepts(num) == num >= -10 /\ num <= 10

\* One iteration of the for loop over the lines.
ParseStep(started, values, line) ==
  IF Strip(line, Whitespace) = <<>> THEN [started |-> started, values |-> values]
  ELSE
    LET f == Float(Strip(line, {","}))
        s1 == IF started THEN TRUE ELSE f.ok /\ HeaderAccepts(f.val)
    IN  IF ~started /\ ~f.ok THEN [started |-> FALSE, values |-> values]
        ELSE IF s1 /\ f.ok THEN [started |-> TRUE, values |-> Append(values, f.val)]
        ELSE [started |-> s1, values |-> values]


\* ---------------------------------------------------------------- get_chunks
\* range(start, stop, step) for step # 0, as the sequence of its values
RangeLen(start, stop, step) ==
  IF step > 0
  THEN (IF stop > start THEN (stop - start + step - 1) \div step ELSE 0)
  ELSE (IF start > stop THEN (start - stop + (0 - step) - 1) \div (0 - step) ELSE 0)

PyRange(start, stop, step) ==
  [k \in 1..RangeLen(start, stop, step) |-> start + (k - 1) * step]

\* data[i:j], with Python's treatment of negative and out-of-range indices
SliceIndex(n, i) ==
  IF i < 0 THEN (IF n + i < 0 THEN 0 ELSE n + i) ELSE (IF i > n THEN n ELSE i)

Slice(data, i, j) ==
  LET a == SliceIndex(Len(data), i)
      b == SliceIndex(Len(data), j)
  IN  IF a < b THEN SubSeq(data, a + 1, b) ELSE <<>>

ChunkStep(cs, ov) == cs - ov

\* Mutant: the range stops one start index early.
RangeStopExclusive(n, cs) == n - cs

RangeStop(n, cs) == n - cs + 1

\* The body of get_chunks once step is known to be non-zero.
GetChunks(data, cs, ov) ==
  LET starts == PyRange(0, RangeStop(Len(data), cs), ChunkStep(cs, ov))
  IN  [k \in 1..Len(starts) |-> Slice(data, starts[k], starts[k] + cs)]

\* ------------------------------------------------ extract_statistical_features
RECURSIVE SumSeq(_)
SumSeq(s) == IF Len(s) = 0 THEN 0 ELSE Head(s) + SumSeq(Tail(s))

SeqMax(s) == CHOOSE x \in {s[i] : i \in 1..Len(s)} : \A i \in 1..Len(s) : s[i] <= x
SeqMin(s) == CHOOSE x \in {s[i] : i \in 1..Len(s)} : \A i \in 1..Len(s) : s[i] >= x

\* Sum over the window of (n*x - S)^k: n^k times the k-th central moment sum.
Moment(w, k) ==
  LET n == Len(w)
      S == SumSeq(w)
      d == [i \in 1..n |-> n * w[i] - S]
  IN  SumSeq([i \in 1..n |->
        IF k = 2 THEN d[i] * d[i]
        ELSE IF k = 3 THEN d[i] * d[i] * d[i]
        ELSE d[i] * d[i] * d[i] * d[i]])

\* [mean, std, skew, kurtosis, ptp], each held by the exact quantities it is
\* computed from: mean = S/n, std = sqrt(M2/n^3), skew and kurtosis are the
\* third and fourth moments over powers of M2, ptp = max - min.
ExtractFeatures(w) ==
  << <<SumSeq(w), Len(w)>>, Moment(w, 2), <<Moment(w, 3), Moment(w, 2)>>,
     <<Moment(w, 4), Moment(w, 2)>>, SeqMax(w) - SeqMin(w) >>

\* features.reshape(1, -1)
Reshape(f) == <<f>>

\* scaler.transform and model.predict are the loaded artifacts: transform is
\* an uninterpreted function of its argument, predict's label is the
\* artifact's choice.
Transform(x) == <<"scaled", x>>

\* Mutant: predict is given the features that were not scaled.
PredictArgUnscaled(features, features_scaled) == features

PredictArg(features, features_scaled) == features_scaled

\* ----------------------------------------------------------------- labels
Null == "None"
Labels == {"A", "B", Null}

\* -------------------------------------------------------------- exceptions
NoExc == [type |-> "none", msg |-> <<>>]
Exc(t, m) == [type |-> t, msg |-> <<m>>]

\* Mutant: the exception leaves process_and_predict as it was raised.
WrapUnmodified(e) == e

\* except Exception as e: raise RuntimeError(f"Error processing ECG data: {str(e)}")
Wrap(e) == [type |-> "RuntimeError", msg |-> <<"Error processing ECG data: ">> \o e.msg]

\* Mutant: the empty-chunks check never fires.
NoChunksNever(cks) == FALSE

\* if not chunks
NoChunks(cks) == Len(cks) = 0

\* --------------------------------------------------------- value_counts
Count(preds, l) == Cardinality({i \in 1..Len(preds) : preds[i] = l})

\* value_counts(dropna=True) leaves null labels out of the index
Counted(preds) == {preds[i] : i \in 1..Len(preds)} \ {Null}

FirstAt(preds, l) == CHOOSE i \in 1..Len(preds) :
  preds[i] = l /\ \A j \in 1..(i - 1) : preds[j] # l

\* The index orders value_counts can return: the counted labels, each once,
\* by descending count; the order among equal counts is the library's.
ValueCountsOrders(preds) ==
  LET D == Counted(preds)
      n == Cardinality(D)
  IN  { o \in [1..n -> D] :
          /\ \A i, j \in 1..n : i # j => o[i] # o[j]
          /\ \A i \in 1..(n - 1) : Count(preds, o[i]) >= Count(preds, o[i + 1]) }

Summary(preds, order, cks) ==
  [predictions |-> order,
   counts |-> [i \in 1..Len(order) |-> Count(preds, order[i])],
   chunks_processed |-> Len(cks)]

NoResult == [predictions |-> <<>>, counts |-> <<>>, chunks_processed |-> -1]

\* ---------------------------------------------------------------- responses
NoResponse == [status |-> 0]

\* jsonify({'emotions': ..., 'counts': ..., 'chunks_processed': ...})
SuccessResponse(r) ==
  [status |-> 200, emotions |-> r.predictions, counts |-> r.counts,
   chunks_processed |-> r.chunks_processed]

\* jsonify({'error': str(e)}), 500
ErrorResponse(e) == [status |-> 500, error |-> e.msg]

\* Mutant: the handler catches RuntimeError only.
CatchesRuntimeErrorOnly(e) == e.type = "RuntimeError"

\* except Exception: every exception the handler's body raises is caught
Catches(e) == TRUE


\* -------------------------------------------------------------------- state
VARIABLES
  pc,             \* position of the handler serving the current request
  served,         \* requests answered so far by this process
  model_loads,    \* pickle.load calls made on the model artifact
  scaler_loads,   \* pickle.load calls made on the scaler artifact
  ecg_data,       \* request.json['ecgData']
  chunk_size,     \* self.chunk_size
  overlap,        \* self.overlap
  lines,          \* raw_data.split('\n')
  idx,            \* lines consumed by the parser's loop
  data_started,
  data_values,
  chunks,
  widx,           \* windows whose label is in predictions
  features,
  features_scaled,
  predictions,
  calls,          \* extract/transform/predict calls of this request, in order
  exc,            \* the exception in flight, NoExc when there is none
  result,         \* process_and_predict's return value
  response        \* what the handler returned to the client

vars == << pc, served, model_loads, scaler_loads, ecg_data, chunk_size, overlap,
           lines, idx, data_started, data_values, chunks, widx, features,
           features_scaled, predictions, calls, exc, result, response >>

procVars == << lines, idx, data_started, data_values, chunks, widx, features,
               features_scaled, predictions, calls, result >>

ChunkSizes == 1..MaxChunk
Overlaps == 0..(MaxChunk + 1)

Init ==
  /\ pc = "idle"
  /\ served = 0
  /\ model_loads = 0
  /\ scaler_loads = 0
  /\ ecg_data = <<>>
  /\ chunk_size = 1
  /\ overlap = 0
  /\ lines = <<>>
  /\ idx = 0
  /\ data_started = FALSE
  /\ data_values = <<>>
  /\ chunks = <<>>
  /\ widx = 0
  /\ features = <<>>
  /\ features_scaled = <<>>
  /\ predictions = <<>>
  /\ calls = <<>>
  /\ exc = NoExc
  /\ result = NoResult
  /\ response = NoResponse

\* An exception raised inside process_and_predict's try block: it is wrapped
\* and leaves the method.
RaiseInPipeline(e) ==
  /\ exc' = Wrap(e)
  /\ pc' = "handler_except"

\* A request arrives whose JSON body has no 'ecgData' field: line 120 raises.
RequestWithoutField ==
  /\ pc = "idle"
  /\ served < MaxRequests
  /\ exc' = Exc("KeyError", "'ecgData'")
  /\ pc' = "handler_except"
  /\ UNCHANGED << served, model_loads, scaler_loads, ecg_data, chunk_size, overlap,
                  procVars, response >>

\* A request arrives with the field: line 120.
Request ==
  /\ pc = "idle"
  /\ served < MaxRequests
  /\ \E t \in Texts : ecg_data' = t
  /\ pc' = "construct"
  /\ UNCHANGED << served, model_loads, scaler_loads, chunk_size, overlap,
                  procVars, exc, response >>

\* ECGProcessor.__init__: the model artifact cannot be opened or unpickled.
ConstructModelFails ==
  /\ pc = "construct"
  /\ \E cs \in ChunkSizes, ov \in Overlaps : chunk_size' = cs /\ overlap' = ov
  /\ exc' = Exc("FileNotFoundError", "random_forest_model.pkl")
  /\ pc' = "handler_except"
  /\ UNCHANGED << served, model_loads, scaler_loads, ecg_data, procVars, response >>

\* ECGProcessor.__init__: the model is loaded, the scaler artifact fails.
ConstructScalerFails ==
  /\ pc = "construct"
  /\ \E cs \in ChunkSizes, ov \in Overlaps : chunk_size' = cs /\ overlap' = ov
  /\ model_loads' = model_loads + 1
  /\ exc' = Exc("FileNotFoundError", "scaler.pkl")
  /\ pc' = "handler_except"
  /\ UNCHANGED << served, scaler_loads, ecg_data, procVars, response >>

\* ECGProcessor.__init__: both artifacts are loaded.
Construct ==
  /\ pc = "construct"
  /\ \E cs \in ChunkSizes, ov \in Overlaps : chunk_size' = cs /\ overlap' = ov
  /\ model_loads' = model_loads + 1
  /\ scaler_loads' = scaler_loads + 1
  /\ pc' = "split"
  /\ UNCHANGED << served, ecg_data, procVars, exc, response >>

\* parse_ecg_data, lines 31-33
SplitLines ==
  /\ pc = "split"
  /\ lines' = Split(ecg_data)
  /\ idx' = 0
  /\ data_values' = <<>>
  /\ data_started' = FALSE
  /\ pc' = "parse"
  /\ UNCHANGED << served, model_loads, scaler_loads, ecg_data, chunk_size, overlap,
                  chunks, widx, features, features_scaled, predictions, calls,
                  exc, result, response >>

\* parse_ecg_data, one iteration of the loop of lines 35-51
ParseLine ==
  /\ pc = "parse"
  /\ idx < Len(lines)
  /\ LET st == ParseStep(data_started, data_values, lines[idx + 1])
     IN  /\ data_started' = st.started
         /\ data_values' = st.values
  /\ idx' = idx + 1
  /\ pc' = IF idx + 1 = Len(lines) THEN "chunk" ELSE "parse"
  /\ UNCHANGED << served, model_loads, scaler_loads, ecg_data, chunk_size, overlap,
                  lines, chunks, widx, features, features_scaled, predictions,
                  calls, exc, result, response >>

\* get_chunks and the check of lines 84-85
Chunk ==
  /\ pc = "chunk"
  /\ IF ChunkStep(chunk_size, overlap) = 0
     THEN /\ RaiseInPipeline(Exc("ValueError", "range() arg 3 must not be zero"))
          /\ UNCHANGED chunks
     ELSE LET cks == GetChunks(data_values, chunk_size, overlap)
          IN  /\ chunks' = cks
              /\ IF NoChunks(cks)
                 THEN RaiseInPipeline(Exc("ValueError", "Not enough data for analysis"))
                 ELSE /\ pc' = IF Len(cks) = 0 THEN "aggregate" ELSE "extract"
                      /\ UNCHANGED exc
  /\ UNCHANGED << served, model_loads, scaler_loads, ecg_data, chunk_size, overlap,
                  lines, idx, data_started, data_values, widx, features,
                  features_scaled, predictions, calls, result, response >>

Call(op, arg, ok, ret) == [op |-> op, window |-> widx + 1, arg |-> arg, ok |-> ok, ret |-> ret]

\* line 90-91; np.ptp raises on a window with no samples
Extract ==
  /\ pc = "extract"
  /\ LET w == chunks[widx + 1]
     IN  IF Len(w) = 0
         THEN /\ calls' = Append(calls, Call("extract", w, FALSE, <<>>))
              /\ RaiseInPipeline(Exc("ValueError", "zero-size array to reduction operation"))
              /\ UNCHANGED features
         ELSE /\ features' = Reshape(ExtractFeatures(w))
              /\ calls' = Append(calls, Call("extract", w, TRUE, ExtractFeatures(w)))
              /\ pc' = "normalize"
              /\ UNCHANGED exc
  /\ UNCHANGED << served, model_loads, scaler_loads, ecg_data, chunk_size, overlap,
                  lines, idx, data_started, data_values, chunks, widx,
                  features_scaled, predictions, result, response >>

\* line 92, the scaler accepts the vector
Normalize ==
  /\ pc = "normalize"
  /\ features_scaled' = Transform(features)
  /\ calls' = Append(calls, Call("normalize", features, TRUE, Transform(features)))
  /\ pc' = "classify"
  /\ UNCHANGED << served, model_loads, scaler_loads, ecg_data, chunk_size, overlap,
                  lines, idx, data_started, data_values, chunks, widx, features,
                  predictions, exc, result, response >>

\* line 92, the scaler raises
NormalizeFails ==
  /\ pc = "normalize"
  /\ calls' = Append(calls, Call("normalize", features, FALSE, <<>>))
  /\ RaiseInPipeline(Exc("ValueError", "scaler.transform failed"))
  /\ UNCHANGED << served, model_loads, scaler_loads, ecg_data, chunk_size, overlap,
                  lines, idx, data_started, data_values, chunks, widx, features,
                  features_scaled, predictions, result, response >>

\* lines 93-94, the model returns a label
Classify ==
  /\ pc = "classify"
  /\ \E l \in Labels :
       /\ predictions' = Append(predictions, l)
       /\ calls' = Append(calls,
            Call("classify", PredictArg(features, features_scaled), TRUE, l))
  /\ widx' = widx + 1
  /\ pc' = IF widx + 1 = Len(chunks) THEN "aggregate" ELSE "extract"
  /\ UNCHANGED << served, model_loads, scaler_loads, ecg_data, chunk_size, overlap,
                  lines, idx, data_started, data_values, chunks, features,
                  features_scaled, exc, result, response >>

\* line 93, the model raises
ClassifyFails ==
  /\ pc = "classify"
  /\ calls' = Append(calls,
       Call("classify", PredictArg(features, features_scaled), FALSE, ""))
  /\ RaiseInPipeline(Exc("ValueError", "model.predict failed"))
  /\ UNCHANGED << served, model_loads, scaler_loads, ecg_data, chunk_size, overlap,
                  lines, idx, data_started, data_values, chunks, widx, features,
                  features_scaled, predictions, result, response >>

\* lines 97-104
Aggregate ==
  /\ pc = "aggregate"
  /\ \E order \in ValueCountsOrders(predictions) :
       result' = Summary(predictions, order, chunks)
  /\ pc' = "handler_return"
  /\ UNCHANGED << served, model_loads, scaler_loads, ecg_data, chunk_size, overlap,
                  lines, idx, data_started, data_values, chunks, widx, features,
                  features_scaled, predictions, calls, exc, response >>

\* lines 130-134
RespondSuccess ==
  /\ pc = "handler_return"
  /\ response' = SuccessResponse(result)
  /\ served' = served + 1
  /\ pc' = "done"
  /\ UNCHANGED << model_loads, scaler_loads, ecg_data, chunk_size, overlap,
                  procVars, exc >>

\* lines 136-137; an exception the clause does not catch leaves the handler
RespondError ==
  /\ pc = "handler_except"
  /\ response' = IF Catches(exc) THEN ErrorResponse(exc) ELSE [status |-> -1]
  /\ served' = served + 1
  /\ pc' = "done"
  /\ UNCHANGED << model_loads, scaler_loads, ecg_data, chunk_size, overlap,
                  procVars, exc >>

\* The process goes on to the next request; nothing of the last one is kept
\* but what the process itself holds.
NextRequest ==
  /\ pc = "done"
  /\ pc' = "idle"
  /\ ecg_data' = <<>>
  /\ chunk_size' = 1
  /\ overlap' = 0
  /\ lines' = <<>>
  /\ idx' = 0
  /\ data_started' = FALSE
  /\ data_values' = <<>>
  /\ chunks' = <<>>
  /\ widx' = 0
  /\ features' = <<>>
  /\ features_scaled' = <<>>
  /\ predictions' = <<>>
  /\ calls' = <<>>
  /\ exc' = NoExc
  /\ result' = NoResult
  /\ response' = NoResponse
  /\ UNCHANGED << served, model_loads, scaler_loads >>

Next ==
  \/ RequestWithoutField
  \/ Request
  \/ ConstructModelFails
  \/ ConstructScalerFails
  \/ Construct
  \/ SplitLines
  \/ ParseLine
  \/ Chunk
  \/ Extract
  \/ Normalize
  \/ NormalizeFails
  \/ Classify
  \/ ClassifyFails
  \/ Aggregate
  \/ RespondSuccess
  \/ RespondError
  \/ NextRequest

Spec == Init /\ [][Next]_vars


\* ==================================================================== claims
ParseRunning == Len(lines) > 0 /\ pc \in {"parse", "chunk"}
ParseDone == Len(lines) > 0 /\ idx = Len(lines)
ChunksReturned ==
  ParseDone /\ pc \notin {"parse", "chunk"} /\ chunk_size - overlap # 0
Contract == 0 <= overlap /\ overlap < chunk_size
Returned == pc \in {"handler_return", "done"} /\ result # NoResult

Interprets(line) == Float(Strip(line, {","}))
InRange(line) ==
  Interprets(line).ok /\ Interprets(line).val >= -10 /\ Interprets(line).val <= 10

\* The samples the specification asks of the first k lines.
RECURSIVE ExpectedFrom(_, _, _)
ExpectedFrom(ls, k, started) ==
  IF k > Len(ls) THEN <<>>
  ELSE IF (started \/ InRange(ls[k])) /\ Interprets(ls[k]).ok
       THEN <<Interprets(ls[k]).val>> \o ExpectedFrom(ls, k + 1, TRUE)
       ELSE ExpectedFrom(ls, k + 1, started)

ExpectedSamples(ls) == ExpectedFrom(ls, 1, FALSE)

\* C1: after any number of lines the parser holds, in line order, exactly the
\* values of the lines that interpret as a number after comma-stripping from
\* the first in-range one on; it is in the data state exactly when some line
\* read so far was in range (so it never goes back to header-skip, lines
\* before that one are dropped whatever they parse to, and the result is empty
\* when no line is in range); and no exception is raised while parsing.
C1_ParseEcgData ==
  ParseRunning =>
    /\ lines = Split(ecg_data)
    /\ data_values = ExpectedSamples(SubSeq(lines, 1, idx))
    /\ data_started = (\E j \in 1..idx : InRange(lines[j]))
    /\ exc = NoExc
    /\ (pc = "chunk" <=> idx = Len(lines))

\* An out-of-range number precedes the first in-range line and is dropped,
\* an out-of-range number after it is kept.
C1_Witness ==
  /\ pc = "chunk"
  /\ Len(lines) = 3
  /\ lines[1] = <<"2">>
  /\ lines[3] = <<"2">>
  /\ data_values = <<5, 20>>

\* C2: with 0 <= overlap < window_size and at least window_size samples,
\* get_chunks returns floor((len - window_size) / step) + 1 windows, the k-th
\* being the samples k*step .. k*step + window_size - 1 in order.
C2_GetChunks ==
  (ChunksReturned /\ Contract /\ Len(data_values) >= chunk_size) =>
    LET step == chunk_size - overlap
    IN  /\ Len(chunks) = ((Len(data_values) - chunk_size) \div step) + 1
        /\ \A k \in 0..(Len(chunks) - 1) :
             chunks[k + 1] = [j \in 1..chunk_size |-> data_values[k * step + j]]

\* Overlapping windows, and a trailing sample that fills no window.
C2_Witness ==
  /\ ChunksReturned
  /\ chunk_size = 2
  /\ overlap = 0
  /\ Len(data_values) = 3
  /\ Len(chunks) = 1

C4_SummaryInvariant ==
  Returned =>
    /\ SumSeq(result.counts) = result.chunks_processed
    /\ result.chunks_processed = Cardinality({i \in 1..Len(calls) :
                                               calls[i].op = "classify" /\ calls[i].ok})
    /\ Len(result.predictions) = Len(result.counts)
    /\ \A i, j \in 1..Len(result.predictions) :
         i # j => result.predictions[i] # result.predictions[j]

\* C5: the labels of a summary are in descending order of count, counts[i]
\* is the number of occurrences of predictions[i], and of two labels with the
\* same count the one that appears first in the label sequence comes first.
C5_TieBreakFirstAppearance ==
  Returned =>
    /\ \A i \in 1..Len(result.predictions) :
         result.counts[i] = Count(predictions, result.predictions[i])
    /\ \A i, j \in 1..Len(result.predictions) :
         i < j =>
           \/ result.counts[i] > result.counts[j]
           \/ /\ result.counts[i] = result.counts[j]
              /\ FirstAt(predictions, result.predictions[i])
                   < FirstAt(predictions, result.predictions[j])

\* C6: over the requests one process serves, the model and the scaler are
\* each loaded at most once.
C6_LoadedOnce == model_loads <= 1 /\ scaler_loads <= 1

\* C7: a request ends in exactly one response: status 200 with the summary's
\* labels, counts and window total when nothing was raised, status 500 with
\* the exception's message when anything was raised; before the end there is
\* no response.
C7_Responses ==
  /\ (pc # "done" => response = NoResponse)
  /\ (pc = "done" =>
        \/ /\ exc = NoExc
           /\ result # NoResult
           /\ response = [status |-> 200, emotions |-> result.predictions,
                          counts |-> result.counts,
                          chunks_processed |-> result.chunks_processed]
        \/ /\ exc # NoExc
           /\ result = NoResult
           /\ Len(exc.msg) > 0
           /\ response = [status |-> 500, error |-> exc.msg])

\* The request had no 'ecgData' field and was answered with status 500.
C7_Witness ==
  /\ pc = "done"
  /\ exc.type = "KeyError"
  /\ response.status = 500

\* C8: in a run that reaches aggregation, the calls are, window by window in
\* window order, one extract on the window, one transform on the reshaped
\* features, one predict on the transform's output, and the i-th label is
\* that predict's result.
C8_Sequencing ==
  (pc \in {"aggregate", "handler_return"} \/ Returned) =>
    /\ Len(calls) = 3 * Len(chunks)
    /\ Len(predictions) = Len(chunks)
    /\ \A i \in 1..Len(chunks) :
         LET e == calls[3 * i - 2]
             n == calls[3 * i - 1]
             c == calls[3 * i]
         IN  /\ e.op = "extract" /\ n.op = "normalize" /\ c.op = "classify"
             /\ e.ok /\ n.ok /\ c.ok
             /\ e.window = i /\ n.window = i /\ c.window = i
             /\ e.arg = chunks[i]
             /\ e.ret = ExtractFeatures(chunks[i])
             /\ n.arg = <<e.ret>>
             /\ n.ret = <<"scaled", n.arg>>
             /\ c.arg = n.ret
             /\ predictions[i] = c.ret

\* A summary was returned for two windows.
C8_Witness ==
  /\ pc = "handler_return"
  /\ Len(chunks) = 2
  /\ Len(calls) = 6

\* C9: when transform or predict raises on a window, that call is the last
\* call of the request (no retry, no later window), the method leaves with a
\* RuntimeError whose message is the prefix followed by the cause, and no
\* summary is returned.
C9_FailurePropagates ==
  \A i \in 1..Len(calls) :
    (calls[i].op \in {"normalize", "classify"} /\ ~calls[i].ok) =>
      /\ i = Len(calls)
      /\ widx = calls[i].window - 1
      /\ Len(predictions) = widx
      /\ pc \in {"handler_except", "done"}
      /\ exc.type = "RuntimeError"
      /\ Len(exc.msg) = 2
      /\ exc.msg[1] = "Error processing ECG data: "
      /\ result = NoResult
      /\ (pc = "done" => response.status = 500)

\* predict raised on the second window, after the first was labelled.
C9_Witness ==
  /\ pc = "handler_except"
  /\ Len(calls) = 6
  /\ calls[6].op = "classify"
  /\ ~calls[6].ok
  /\ Len(predictions) = 1

\* C10: whatever chunk_size >= 1 and overlap >= 0 the processor was built
\* with, every window get_chunks returns has exactly chunk_size samples.
C10_WindowLength ==
  \A k \in 1..Len(chunks) : Len(chunks[k]) = chunk_size

====
